---- MODULE Spec2Model ----
(***************************************************************************)
(* Model of the semantic-HTML audit of src/App.py: audit_logic (the rule    *)
(* engine and scorer) followed by the severity sort of the report section.  *)
(*                                                                          *)
(* A parsed document is a sequence of element nodes in document order       *)
(* (pre-order).  A node is [name, parent, attrs]: parent is the index of    *)
(* the enclosing element (0 for a top-level element), attrs maps each of    *)
(* class/id/alt/href to {} when the attribute is absent and to {value}      *)
(* when it is present.  Attribute strings are sequences of one-character    *)
(* strings, so that lower-casing, substring and prefix tests are computed.  *)
(* A class value is the list of its tokens, as BeautifulSoup stores it.     *)
(***************************************************************************)
EXTENDS Integers, Sequences, FiniteSets, TLC

VARIABLES html_content, soup, pc, issues, score_deductions, h1s, headings,
          hpos, prev_level, final_score

vars == <<html_content, soup, pc, issues, score_deductions, h1s, headings,
          hpos, prev_level, final_score>>

(***************************************************************************)
(* Bounds of the input documents.                                          *)
(***************************************************************************)
MaxHeadings == 3
MaxRepeat == 5
MaxParas == 4
MaxNavItems == 2
MaxImgs == 2
MaxAnchors == 2

(***************************************************************************)
(* Program constants: the deduction of each rule, the paragraph threshold  *)
(* and the score the deductions are taken from.                            *)
(***************************************************************************)
W_MISSING_H1 == 25
W_MULTIPLE_H1 == 10
W_SKIPPED_LEVEL == 5
W_GENERIC_CONTAINER == 15
W_FAKE_NAV == 5
W_MISSING_ALT == 10
W_FAKE_BUTTON == 5
P_THRESHOLD == 3
FULL_SCORE == 100

(***************************************************************************)
(* Strings.                                                                *)
(***************************************************************************)
s_nav == <<"n", "a", "v">>
s_menu == <<"m", "e", "n", "u">>
s_navigation == <<"n", "a", "v", "i", "g", "a", "t", "i", "o", "n">>
s_main_nav == <<"m", "a", "i", "n", "-", "n", "a", "v">>
s_MENU == <<"M", "E", "N", "U">>
s_Top == <<"T", "o", "p">>
s_content == <<"c", "o", "n", "t", "e", "n", "t">>
s_logo == <<"l", "o", "g", "o">>
s_empty == << >>
s_hash == <<"#">>
s_js_void == <<"j", "a", "v", "a", "s", "c", "r", "i", "p", "t", ":",
               "v", "o", "i", "d", "(", "0", ")">>
s_js_other == <<"j", "a", "v", "a", "s", "c", "r", "i", "p", "t", ":", ";">>
s_js_prefix == <<"j", "a", "v", "a", "s", "c", "r", "i", "p", "t", ":">>
s_home == <<"/", "h", "o", "m", "e">>

\* str.lower() on one character
LowerChar(c) ==
    CASE c = "A" -> "a" [] c = "B" -> "b" [] c = "C" -> "c" [] c = "D" -> "d"
      [] c = "E" -> "e" [] c = "F" -> "f" [] c = "G" -> "g" [] c = "H" -> "h"
      [] c = "I" -> "i" [] c = "J" -> "j" [] c = "K" -> "k" [] c = "L" -> "l"
      [] c = "M" -> "m" [] c = "N" -> "n" [] c = "O" -> "o" [] c = "P" -> "p"
      [] c = "Q" -> "q" [] c = "R" -> "r" [] c = "S" -> "s" [] c = "T" -> "t"
      [] c = "U" -> "u" [] c = "V" -> "v" [] c = "W" -> "w" [] c = "X" -> "x"
      [] c = "Y" -> "y" [] c = "Z" -> "z" [] OTHER -> c

\* str.lower()
Lower(s) == [i \in 1..Len(s) |-> LowerChar(s[i])]

\* sub in s
Contains(sub, s) ==
    \E i \in 1..(Len(s) - Len(sub) + 1) : SubSeq(s, i, i + Len(sub) - 1) = sub

\* s.startswith(prefix)
StartsWith(s, prefix) ==
    Len(s) >= Len(prefix) /\ SubSeq(s, 1, Len(prefix)) = prefix

\* " ".join(tokens)
RECURSIVE Join(_)
Join(tokens) ==
    IF tokens = << >> THEN << >>
    ELSE IF Len(tokens) = 1 THEN tokens[1]
    ELSE tokens[1] \o <<" ">> \o Join(Tail(tokens))

(***************************************************************************)
(* The element tree.                                                       *)
(***************************************************************************)
NoAttrs == [class |-> {}, id |-> {}, alt |-> {}, href |-> {}]

Node(name, parent, attrs) == [name |-> name, parent |-> parent, attrs |-> attrs]

\* tag.get(key, default)
Get(node, key, default) ==
    IF node.attrs[key] = {} THEN default ELSE CHOOSE v \in node.attrs[key] : TRUE

\* the proper ancestors of node i
RECURSIVE Ancestors(_, _)
Ancestors(tree, i) ==
    IF tree[i].parent = 0 THEN {}
    ELSE {tree[i].parent} \cup Ancestors(tree, tree[i].parent)

\* tree.find_all(names): the indices of the matching elements, in document order
FindAll(tree, names) ==
    SelectSeq([i \in 1..Len(tree) |-> i], LAMBDA i : tree[i].name \in names)

\* tag.find_all(names) on element i: its matching descendants, in document order
FindAllIn(tree, i, names) ==
    SelectSeq([j \in 1..Len(tree) |-> j],
              LAMBDA j : tree[j].name \in names /\ i \in Ancestors(tree, j))

\* tag.find_all(names, recursive=False): matching children only
FindChildren(tree, i, names) ==
    SelectSeq([j \in 1..Len(tree) |-> j],
              LAMBDA j : tree[j].name \in names /\ tree[j].parent = i)

\* tag.find_parent(name) is not None
HasParent(tree, i, name) == \E a \in Ancestors(tree, i) : tree[a].name = name

CleanupTags == {"script", "style", "noscript", "svg"}

\* for script in soup([...]): script.decompose()
\* every listed element leaves the tree together with its subtree
Decompose(tree) ==
    LET gone(i) == tree[i].name \in CleanupTags
                   \/ \E a \in Ancestors(tree, i) : tree[a].name \in CleanupTags
        kept == SelectSeq([i \in 1..Len(tree) |-> i], LAMBDA i : ~gone(i))
        pos(i) == Cardinality({j \in 1..i : ~gone(j)})
    IN  [k \in 1..Len(kept) |->
            [tree[kept[k]] EXCEPT !.parent = IF @ = 0 THEN 0 ELSE pos(@)]]

HeadingNames == {"h1", "h2", "h3", "h4", "h5", "h6"}

\* int(h.name[1])
HeadingLevel(name) ==
    CASE name = "h1" -> 1 [] name = "h2" -> 2 [] name = "h3" -> 3
      [] name = "h4" -> 4 [] name = "h5" -> 5 [] name = "h6" -> 6

(***************************************************************************)
(* Findings.  Title is the fixed part of the title, Args the numbers the   *)
(* f-strings of the title put into it, Node the element handed to          *)
(* get_snippet (0 for the literal "<html>" snippet).                       *)
(***************************************************************************)
T_MISSING_H1 == "Missing H1 Tag"
T_MULTIPLE_H1 == "Multiple H1 Tags"
T_SKIPPED_LEVEL == "Skipped Heading Level"
T_GENERIC_CONTAINER == "Generic Container for Main Content"
T_FAKE_NAV == "Generic <div> used for Navigation"
T_MISSING_ALT == "Images Missing Alt Text"
T_FAKE_BUTTON == "Anchors used as Buttons"

Issue(severity, title, args, node) ==
    [Severity |-> severity, Title |-> title, Args |-> args, Node |-> node]

Max(a, b) == IF a >= b THEN a ELSE b


(***************************************************************************)
(* A. Headings: the H1 rule.                                               *)
(***************************************************************************)
\* variant: a single h1 counted as missing too
MissingH1AtMostOne(h) == Len(h) <= 1

\* len(h1s) == 0
MissingH1(h) == Len(h) = 0

\* elif len(h1s) > 1
MultipleH1(h) == ~MissingH1(h) /\ Len(h) > 1

MissingH1Issue(h) == Issue("Critical", T_MISSING_H1, << >>, 0)

\* variant: the snippet of h1s[0], the h1 that is kept
MultipleH1IssueFirst(h) == Issue("High", T_MULTIPLE_H1, <<Len(h)>>, h[1])

\* one finding, titled with the number of h1 found, snippet of h1s[1]
MultipleH1Issue(h) == Issue("High", T_MULTIPLE_H1, <<Len(h)>>, h[2])

H1Issues(h) ==
    IF MissingH1(h) THEN <<MissingH1Issue(h)>>
    ELSE IF MultipleH1(h) THEN <<MultipleH1Issue(h)>>
    ELSE << >>

\* variant: both branches deduct the Multiple-H1 amount
H1DeductionFlat(h) ==
    IF MissingH1(h) \/ MultipleH1(h) THEN W_MULTIPLE_H1 ELSE 0

H1Deduction(h) ==
    IF MissingH1(h) THEN W_MISSING_H1
    ELSE IF MultipleH1(h) THEN W_MULTIPLE_H1
    ELSE 0

(***************************************************************************)
(* A. Headings: the hierarchy rule.                                        *)
(***************************************************************************)
\* variant: without the prev_level != 0 guard
SkipsLevelUnguarded(curr, prev) == curr > prev + 1

\* curr_level > prev_level + 1 and prev_level != 0
SkipsLevel(curr, prev) == curr > prev + 1 /\ prev # 0

SkippedLevelIssue(prev, curr, h) ==
    Issue("Medium", T_SKIPPED_LEVEL, <<prev, curr>>, h)

(***************************************************************************)
(* B.1 The main content wrapper.                                           *)
(***************************************************************************)
ContainerNames == {"div", "section", "main", "article"}

\* variant: p_count, the direct children only
PCountDirect(tree, i) == Len(FindChildren(tree, i, {"p"}))

\* p_count_deep = len(tag.find_all('p'))
PCount(tree, i) == Len(FindAllIn(tree, i, {"p"}))

\* candidates.append((tag, p_count_deep)) for every container, in document order
Candidates(tree) ==
    LET c == FindAll(tree, ContainerNames)
    IN  [k \in 1..Len(c) |-> <<c[k], PCount(tree, c[k])>>]

\* candidates.sort(key=lambda x: x[1], reverse=True): a stable sort, so that
\* candidates of equal count keep their document order
RECURSIVE SortCandidates(_)
SortCandidates(c) ==
    IF c = << >> THEN << >>
    ELSE LET sorted == SortCandidates(SubSeq(c, 1, Len(c) - 1))
             x == c[Len(c)]
             k == Cardinality({j \in 1..Len(sorted) : sorted[j][2] >= x[2]})
         IN  SubSeq(sorted, 1, k) \o <<x>> \o SubSeq(sorted, k + 1, Len(sorted))

\* count > 3 and top_container.name not in ['main', 'article']
GenericTop(tree, top, count) ==
    count > P_THRESHOLD /\ tree[top].name \notin {"main", "article"}

ContentIssues(tree) ==
    LET c == SortCandidates(Candidates(tree))
    IN  IF c # << >> /\ GenericTop(tree, c[1][1], c[1][2])
        THEN <<Issue("Critical", T_GENERIC_CONTAINER, <<c[1][2]>>, c[1][1])>>
        ELSE << >>

(***************************************************************************)
(* B.2 Fake navigation.                                                    *)
(***************************************************************************)
\* variant: without .lower()
NavClassMatchCaseSensitive(node) ==
    LET classes == Join(Get(node, "class", << >>))
    IN  Contains(s_nav, classes) \/ Contains(s_menu, classes)

\* classes = " ".join(div.get('class', [])).lower()
\* 'nav' in classes or 'menu' in classes
NavClassMatch(node) ==
    LET classes == Lower(Join(Get(node, "class", << >>)))
    IN  Contains(s_nav, classes) \/ Contains(s_menu, classes)

\* the divs that reach the append: matching class, no <nav> ancestor
NavOffenders(tree) ==
    SelectSeq(FindAll(tree, {"div"}),
              LAMBDA i : NavClassMatch(tree[i]) /\ ~HasParent(tree, i, "nav"))

\* the loop breaks at the first append
NavIssues(tree) ==
    LET off == NavOffenders(tree)
    IN  IF off # << >> THEN <<Issue("Medium", T_FAKE_NAV, << >>, off[1])>>
        ELSE << >>

(***************************************************************************)
(* C.1 Alt text.                                                           *)
(***************************************************************************)
\* variant: img.get('alt') is None
AltMissingAbsentOnly(node) == node.attrs.alt = {}

\* not img.get('alt'): None and '' are both falsy
AltMissing(node) == node.attrs.alt = {} \/ Get(node, "alt", << >>) = << >>

MissingAlt(tree) ==
    SelectSeq(FindAll(tree, {"img"}), LAMBDA i : AltMissing(tree[i]))

AltIssues(tree) ==
    LET m == MissingAlt(tree)
    IN  IF m # << >> THEN <<Issue("High", T_MISSING_ALT, <<Len(m)>>, m[1])>>
        ELSE << >>

(***************************************************************************)
(* C.2 Fake buttons.                                                       *)
(***************************************************************************)
\* soup.find_all('a', href=True): the anchors that carry an href attribute
FakeLinks(tree) ==
    SelectSeq(FindAll(tree, {"a"}), LAMBDA i : tree[i].attrs.href # {})

\* a['href'] in ['#', 'javascript:void(0)']
BadHref(href) == href \in {s_hash, s_js_void}

BadLinks(tree) ==
    SelectSeq(FakeLinks(tree), LAMBDA i : BadHref(Get(tree[i], "href", << >>)))

LinkIssues(tree) ==
    LET b == BadLinks(tree)
    IN  IF b # << >> THEN <<Issue("Low", T_FAKE_BUTTON, <<Len(b)>>, b[1])>>
        ELSE << >>

(***************************************************************************)
(* Score and report order.                                                 *)
(***************************************************************************)
\* variant: without the clamp
FinalScoreUnclamped(d) == FULL_SCORE - d

\* max(0, 100 - score_deductions)
FinalScore(d) == Max(0, FULL_SCORE - d)

\* severity_map.get(x['Severity'], 4)
SeverityRank(s) ==
    CASE s = "Critical" -> 0 [] s = "High" -> 1 [] s = "Medium" -> 2
      [] s = "Low" -> 3 [] OTHER -> 4

\* variant: a sort that puts a finding before those of its own severity
RECURSIVE SortIssuesUnstable(_)
SortIssuesUnstable(l) ==
    IF l = << >> THEN << >>
    ELSE LET sorted == SortIssuesUnstable(SubSeq(l, 1, Len(l) - 1))
             x == l[Len(l)]
             k == Cardinality({j \in 1..Len(sorted) :
                     SeverityRank(sorted[j].Severity) < SeverityRank(x.Severity)})
         IN  SubSeq(sorted, 1, k) \o <<x>> \o SubSeq(sorted, k + 1, Len(sorted))

\* issues.sort(key=...): list.sort is stable
RECURSIVE SortIssues(_)
SortIssues(l) ==
    IF l = << >> THEN << >>
    ELSE LET sorted == SortIssues(SubSeq(l, 1, Len(l) - 1))
             x == l[Len(l)]
             k == Cardinality({j \in 1..Len(sorted) :
                     SeverityRank(sorted[j].Severity) <= SeverityRank(x.Severity)})
         IN  SubSeq(sorted, 1, k) \o <<x>> \o SubSeq(sorted, k + 1, Len(sorted))

(***************************************************************************)
(* Actions: audit_logic from top to bottom, then the sort of the report.   *)
(***************************************************************************)
\* soup = BeautifulSoup(...); decompose scripts; issues = []; score_deductions = 0
Prepare ==
    /\ pc = "start"
    /\ soup' = Decompose(html_content)
    /\ issues' = << >>
    /\ score_deductions' = 0
    /\ pc' = "h1"
    /\ UNCHANGED <<html_content, h1s, headings, hpos, prev_level, final_score>>

CheckH1 ==
    /\ pc = "h1"
    /\ h1s' = FindAll(soup, {"h1"})
    /\ headings' = FindAll(soup, HeadingNames)
    /\ issues' = issues \o H1Issues(h1s')
    /\ score_deductions' = score_deductions + H1Deduction(h1s')
    /\ prev_level' = 0
    /\ hpos' = 1
    /\ pc' = "headings"
    /\ UNCHANGED <<html_content, soup, final_score>>

\* one iteration of: for h in headings
HeadingStep ==
    /\ pc = "headings"
    /\ hpos <= Len(headings)
    /\ LET h == headings[hpos]
           curr_level == HeadingLevel(soup[h].name)
       IN  /\ IF SkipsLevel(curr_level, prev_level)
              THEN /\ issues' = Append(issues,
                                   SkippedLevelIssue(prev_level, curr_level, h))
                   /\ score_deductions' = score_deductions + W_SKIPPED_LEVEL
              ELSE UNCHANGED <<issues, score_deductions>>
           /\ prev_level' = curr_level
    /\ hpos' = hpos + 1
    /\ UNCHANGED <<html_content, soup, pc, h1s, headings, final_score>>

\* the loop is over (or headings is empty)
HeadingsDone ==
    /\ pc = "headings"
    /\ hpos > Len(headings)
    /\ pc' = "content"
    /\ UNCHANGED <<html_content, soup, issues, score_deductions, h1s, headings,
                   hpos, prev_level, final_score>>

CheckContent ==
    /\ pc = "content"
    /\ issues' = issues \o ContentIssues(soup)
    /\ score_deductions' = score_deductions
            + (IF ContentIssues(soup) # << >> THEN W_GENERIC_CONTAINER ELSE 0)
    /\ pc' = "nav"
    /\ UNCHANGED <<html_content, soup, h1s, headings, hpos, prev_level,
                   final_score>>

CheckNav ==
    /\ pc = "nav"
    /\ issues' = issues \o NavIssues(soup)
    /\ score_deductions' = score_deductions
            + (IF NavIssues(soup) # << >> THEN W_FAKE_NAV ELSE 0)
    /\ pc' = "alt"
    /\ UNCHANGED <<html_content, soup, h1s, headings, hpos, prev_level,
                   final_score>>

CheckAlt ==
    /\ pc = "alt"
    /\ issues' = issues \o AltIssues(soup)
    /\ score_deductions' = score_deductions
            + (IF AltIssues(soup) # << >> THEN W_MISSING_ALT ELSE 0)
    /\ pc' = "links"
    /\ UNCHANGED <<html_content, soup, h1s, headings, hpos, prev_level,
                   final_score>>

CheckLinks ==
    /\ pc = "links"
    /\ issues' = issues \o LinkIssues(soup)
    /\ score_deductions' = score_deductions
            + (IF LinkIssues(soup) # << >> THEN W_FAKE_BUTTON ELSE 0)
    /\ pc' = "score"
    /\ UNCHANGED <<html_content, soup, h1s, headings, hpos, prev_level,
                   final_score>>

\* final_score = max(0, 100 - score_deductions); return
Return ==
    /\ pc = "score"
    /\ final_score' = FinalScore(score_deductions)
    /\ pc' = "returned"
    /\ UNCHANGED <<html_content, soup, issues, score_deductions, h1s, headings,
                   hpos, prev_level>>

\* the report section sorts the returned list in place
SortReport ==
    /\ pc = "returned"
    /\ issues' = SortIssues(issues)
    /\ pc' = "shown"
    /\ UNCHANGED <<html_content, soup, score_deductions, h1s, headings, hpos,
                   prev_level, final_score>>

Next ==
    \/ Prepare
    \/ CheckH1
    \/ HeadingStep
    \/ HeadingsDone
    \/ CheckContent
    \/ CheckNav
    \/ CheckAlt
    \/ CheckLinks
    \/ Return
    \/ SortReport

(***************************************************************************)
(* Input documents.                                                        *)
(***************************************************************************)
\* d placed under element `under` of a tree in which it starts after k nodes
Shift(d, k, under) ==
    [i \in 1..Len(d) |->
        [d[i] EXCEPT !.parent = IF @ = 0 THEN under ELSE @ + k]]

\* d1 followed by d2
Cat(d1, d2) == d1 \o Shift(d2, Len(d1), 0)

\* <name attrs> d </name>
Wrap(name, attrs, d) == <<Node(name, 0, attrs)>> \o Shift(d, 1, 1)

Leaf(name, attrs) == <<Node(name, 0, attrs)>>

SeqsUpTo(S, n) == UNION {[1..k -> S] : k \in 0..n}

HName(l) ==
    CASE l = 1 -> "h1" [] l = 2 -> "h2" [] l = 3 -> "h3"
      [] l = 4 -> "h4" [] l = 5 -> "h5" [] l = 6 -> "h6"

HeadingDoc(levels) == [i \in 1..Len(levels) |-> Node(HName(levels[i]), 0, NoAttrs)]

Paras(n) == [i \in 1..n |-> Node("p", 0, NoAttrs)]

RECURSIVE Rep(_, _)
Rep(unit, k) == IF k = 0 THEN << >> ELSE unit \o Rep(unit, k - 1)

\* every heading sequence of at most MaxHeadings headings
HeadingDocs == {HeadingDoc(l) : l \in SeqsUpTo(1..6, MaxHeadings)}

\* long heading runs, with or without an offender of each other rule
ScoreUnits == {<<1>>, <<1, 2>>, <<2, 4>>, <<2, 4, 6>>, <<1, 3, 2>>}

ScoreDocs ==
    {Cat(HeadingDoc(Rep(u, k)), Cat(c, Cat(n, Cat(i, a)))) :
        u \in ScoreUnits, k \in 0..MaxRepeat,
        c \in {<< >>, Wrap("div", NoAttrs, Paras(P_THRESHOLD + 1))},
        n \in {<< >>, Leaf("div", [NoAttrs EXCEPT !.class = {<<s_main_nav>>}])},
        i \in {<< >>, Leaf("img", NoAttrs)},
        a \in {<< >>, Leaf("a", [NoAttrs EXCEPT !.href = {s_hash}])}}

\* two containers, nested or side by side, with paragraphs in each
ContentDocs ==
    {Cat(Leaf("h1", NoAttrs), Paras(n)) : n \in 0..MaxParas}
    \cup
    {Cat(Leaf("h1", NoAttrs), Cat(Paras(r),
         IF nested
         THEN Wrap(t1, NoAttrs, Cat(Paras(a), Wrap(t2, NoAttrs, Paras(b))))
         ELSE Cat(Wrap(t1, NoAttrs, Paras(a)), Wrap(t2, NoAttrs, Paras(b))))) :
        t1 \in ContainerNames, t2 \in ContainerNames, nested \in BOOLEAN,
        r \in 0..1, a \in 0..MaxParas, b \in 0..MaxParas}

\* generic containers with navigation-like or other class and id values,
\* at top level, inside a <nav>, or deeper inside a <nav>
NavElements ==
    {Leaf("div", [NoAttrs EXCEPT !.class = {c}]) :
        c \in {<<s_main_nav>>, <<s_Top, s_MENU>>, <<s_content>>}}
    \cup {Leaf("div", NoAttrs),
          Leaf("div", [NoAttrs EXCEPT !.id = {s_navigation}]),
          Leaf("span", [NoAttrs EXCEPT !.class = {<<s_menu>>}])}

NavItems ==
    UNION {{e, Wrap("nav", NoAttrs, e),
            Wrap("nav", NoAttrs, Wrap("section", NoAttrs, e))} : e \in NavElements}

RECURSIVE CatAll(_)
CatAll(ds) == IF ds = << >> THEN << >> ELSE Cat(ds[1], CatAll(Tail(ds)))

NavDocs ==
    {Cat(Leaf("h1", NoAttrs), CatAll(items)) : items \in SeqsUpTo(NavItems, MaxNavItems)}

\* images and anchors with every kind of alt and href, optionally after a
\* <noscript> that holds an image without alt and a "#" anchor
AltValues == {{}, {s_empty}, {s_logo}}

HrefValues == {{}, {s_empty}, {s_hash}, {s_js_void}, {s_js_other}, {s_home}}

ImgDoc(alts) == [i \in 1..Len(alts) |-> Node("img", 0, [NoAttrs EXCEPT !.alt = alts[i]])]

AnchorDoc(hrefs) == [i \in 1..Len(hrefs) |-> Node("a", 0, [NoAttrs EXCEPT !.href = hrefs[i]])]

NoScriptBlock ==
    Wrap("noscript", NoAttrs,
         Cat(Leaf("img", NoAttrs), Leaf("a", [NoAttrs EXCEPT !.href = {s_hash}])))

A11yDocs ==
    {Cat(Leaf("h1", NoAttrs), Cat(IF ns THEN NoScriptBlock ELSE << >>,
         Cat(ImgDoc(alts), AnchorDoc(hrefs)))) :
        ns \in BOOLEAN, alts \in SeqsUpTo(AltValues, MaxImgs),
        hrefs \in SeqsUpTo(HrefValues, MaxAnchors)}

(***************************************************************************)
(* Specifications: one per family of input documents.                      *)
(***************************************************************************)
InitWith(docs) ==
    /\ html_content \in docs
    /\ soup = << >>
    /\ pc = "start"
    /\ issues = << >>
    /\ score_deductions = 0
    /\ h1s = << >>
    /\ headings = << >>
    /\ hpos = 1
    /\ prev_level = 0
    /\ final_score = 0

Init == InitWith(HeadingDocs)
InitScore == InitWith(ScoreDocs)
InitContent == InitWith(ContentDocs)
InitNav == InitWith(NavDocs)
InitA11y == InitWith(A11yDocs)

Spec == Init /\ [][Next]_vars
SpecScore == InitScore /\ [][Next]_vars
SpecContent == InitContent /\ [][Next]_vars
SpecNav == InitNav /\ [][Next]_vars
SpecA11y == InitA11y /\ [][Next]_vars


(***************************************************************************)
(* Properties.                                                             *)
(***************************************************************************)
Returned == pc \in {"returned", "shown"}

IssuesTitled(t) == SelectSeq(issues, LAMBDA f : f.Title = t)

CountTitled(t) == Len(IssuesTitled(t))

\* the deduction of the rule that emits a finding of this title
WeightOf(title) ==
    CASE title = T_MISSING_H1 -> W_MISSING_H1
      [] title = T_MULTIPLE_H1 -> W_MULTIPLE_H1
      [] title = T_SKIPPED_LEVEL -> W_SKIPPED_LEVEL
      [] title = T_GENERIC_CONTAINER -> W_GENERIC_CONTAINER
      [] title = T_FAKE_NAV -> W_FAKE_NAV
      [] title = T_MISSING_ALT -> W_MISSING_ALT
      [] title = T_FAKE_BUTTON -> W_FAKE_BUTTON

RECURSIVE DeductionSum(_)
DeductionSum(l) ==
    IF l = << >> THEN 0 ELSE WeightOf(l[1].Title) + DeductionSum(Tail(l))

\* the level of the i-th heading of the analysed tree
LevelAt(i) == HeadingLevel(soup[headings[i]].name)

\* the h1 elements of the analysed tree
H1Set == {i \in 1..Len(soup) : soup[i].name = "h1"}

\* the number of p elements below element i, at any depth
ParasBelow(i) ==
    Cardinality({j \in 1..Len(soup) : soup[j].name = "p" /\ i \in Ancestors(soup, j)})

\* the smallest member of a non-empty set of indices
First(S) == CHOOSE i \in S : \A j \in S : i <= j

(* C1: when audit_logic returns, the score is max(0, 100 - D) for D the sum *)
(* of the per-rule deductions of the findings of the pass, clamped once at  *)
(* the end; so it is an integer between 0 and 100, also when D exceeds 100. *)
C1_ScoreIsClampedSum ==
    Returned =>
        LET D == DeductionSum(issues)
        IN  /\ final_score = (IF 100 - D < 0 THEN 0 ELSE 100 - D)
            /\ final_score \in 0..100

\* a pass whose deductions exceed 100
C1_Witness ==
    pc = "returned" /\ DeductionSum(issues) > 100 /\ final_score = 0

(* C2 as stated: the empty document ends the analysis with score 100, no    *)
(* finding and an empty heading outline.                                    *)
C2_EmptyDocumentIsClean ==
    (Returned /\ html_content = << >>) =>
        final_score = 100 /\ issues = << >> /\ headings = << >>

(* C2 as amended: the analysis of the empty document runs to its end, and   *)
(* returns score 75, exactly one finding (the Critical Missing-H1 finding,  *)
(* with no referenced node) and an empty heading outline.                   *)
C2_EmptyDocumentMissesH1 ==
    /\ (html_content = << >>) => (pc = "shown" \/ ENABLED Next)
    /\ (Returned /\ html_content = << >>) =>
          /\ final_score = 75
          /\ issues = <<Issue("Critical", T_MISSING_H1, << >>, 0)>>
          /\ headings = << >>

C2_Witness == pc = "returned" /\ html_content = << >>

(* C3: the hierarchy rule emits a Medium skipped-level finding for heading  *)
(* i >= 2 exactly when level(i) > level(i-1) + 1, compared with the heading *)
(* just before it only (prev_level follows every heading); the first        *)
(* heading, a decrease and a +1 step give none; each finding references the *)
(* skipping heading and names the pair (previous level, current level).     *)
C3_SkippedLevels ==
    /\ (pc = "headings" /\ hpos > 1) => prev_level = LevelAt(hpos - 1)
    /\ Returned =>
          LET n == Len(headings)
              skips == SelectSeq([i \in 1..n |-> i],
                           LAMBDA i : i >= 2 /\ LevelAt(i) > LevelAt(i - 1) + 1)
          IN  IssuesTitled(T_SKIPPED_LEVEL) =
                  [k \in 1..Len(skips) |->
                      Issue("Medium", T_SKIPPED_LEVEL,
                            <<LevelAt(skips[k] - 1), LevelAt(skips[k])>>,
                            headings[skips[k]])]

\* h1, h3, h2: one finding, for the h3, and none for the decrease after it
C3_Witness ==
    /\ pc = "returned"
    /\ Len(headings) = 3
    /\ LevelAt(1) = 1 /\ LevelAt(2) = 3 /\ LevelAt(3) = 2
    /\ CountTitled(T_SKIPPED_LEVEL) = 1

(* C4: the Missing-H1 finding is emitted once, Critical, exactly when the   *)
(* document has no h1; its deduction is larger than that of every other     *)
(* rule; one h1 gives neither a Missing-H1 nor a Multiple-H1 finding, and   *)
(* the two never occur together.                                            *)
C4_MissingH1 ==
    /\ \A t \in {T_MULTIPLE_H1, T_SKIPPED_LEVEL, T_GENERIC_CONTAINER,
                 T_FAKE_NAV, T_MISSING_ALT, T_FAKE_BUTTON} :
            WeightOf(T_MISSING_H1) > WeightOf(t)
    /\ (pc = "headings" /\ hpos = 1 /\ H1Set = {}) => score_deductions = 25
    /\ (pc = "headings" /\ hpos = 1 /\ H1Set # {}) => score_deductions < 25
    /\ Returned =>
          /\ CountTitled(T_MISSING_H1) = (IF H1Set = {} THEN 1 ELSE 0)
          /\ \A k \in 1..Len(issues) :
                issues[k].Title = T_MISSING_H1 => issues[k].Severity = "Critical"
          /\ Cardinality(H1Set) = 1 =>
                CountTitled(T_MISSING_H1) = 0 /\ CountTitled(T_MULTIPLE_H1) = 0
          /\ ~(CountTitled(T_MISSING_H1) > 0 /\ CountTitled(T_MULTIPLE_H1) > 0)

\* a document with headings, none of them an h1
C4_Witness ==
    pc = "returned" /\ Len(headings) >= 2 /\ CountTitled(T_MISSING_H1) = 1

(* C5 as stated: n >= 2 h1 elements give n - 1 Multiple-H1 findings, the    *)
(* k-th of them referencing the (k+1)-th h1 in document order.              *)
C5_OneFindingPerSurplusH1 ==
    (Returned /\ Cardinality(H1Set) >= 2) =>
        /\ CountTitled(T_MULTIPLE_H1) = Cardinality(H1Set) - 1
        /\ \A k \in 1..(Cardinality(H1Set) - 1) :
              IssuesTitled(T_MULTIPLE_H1)[k].Node = FindAll(soup, {"h1"})[k + 1]

(* C5 as amended: n >= 2 h1 elements give exactly one Multiple-H1 finding,  *)
(* of severity High, whatever n is; its title reports n and it references   *)
(* the second h1 in document order.                                         *)
C5_OneFindingForAllSurplusH1 ==
    (Returned /\ Cardinality(H1Set) >= 2) =>
        IssuesTitled(T_MULTIPLE_H1) =
            <<Issue("High", T_MULTIPLE_H1, <<Cardinality(H1Set)>>,
                    First(H1Set \ {First(H1Set)}))>>

\* three h1 or more: two surplus h1, one finding
C5_Witness ==
    pc = "returned" /\ Cardinality(H1Set) >= 3 /\ CountTitled(T_MULTIPLE_H1) = 1

\* a class or id value that holds a navigation keyword, as C6 states it
KeywordInClassOrId(node) ==
    \E kw \in {s_nav, s_menu, s_navigation} :
        \/ Contains(kw, Lower(Join(Get(node, "class", << >>))))
        \/ Contains(kw, Lower(Get(node, "id", << >>)))

(* C6 as stated: the implied-nav finding is emitted at most once; exactly   *)
(* once, Medium, referencing the first match, if and only if some generic   *)
(* container (div or span) has a class or id that matches a nav keyword and *)
(* is not inside a <nav>.                                                   *)
C6_ImpliedNavByClassOrId ==
    Returned =>
        LET m == {i \in 1..Len(soup) :
                    /\ soup[i].name \in {"div", "span"}
                    /\ KeywordInClassOrId(soup[i])
                    /\ ~\E a \in Ancestors(soup, i) : soup[a].name = "nav"}
        IN  IssuesTitled(T_FAKE_NAV) =
                (IF m # {} THEN <<Issue("Medium", T_FAKE_NAV, << >>, First(m))>>
                 ELSE << >>)

(* C6 as amended: the implied-nav finding is emitted at most once; exactly  *)
(* once, Medium, referencing the first match in document order, if and only *)
(* if some <div> has a class attribute whose tokens, joined by spaces and   *)
(* lower-cased, contain "nav" or "menu", and is not inside a <nav>.  The id *)
(* and <span> elements are not looked at.  A match inside a <nav> neither   *)
(* triggers the finding nor suppresses a later match outside any <nav>.     *)
C6_ImpliedNavByDivClass ==
    Returned =>
        LET m == {i \in 1..Len(soup) :
                    /\ soup[i].name = "div"
                    /\ \E kw \in {s_nav, s_menu} :
                          Contains(kw, Lower(Join(Get(soup[i], "class", << >>))))
                    /\ ~\E a \in Ancestors(soup, i) : soup[a].name = "nav"}
        IN  /\ CountTitled(T_FAKE_NAV) <= 1
            /\ IssuesTitled(T_FAKE_NAV) =
                (IF m # {} THEN <<Issue("Medium", T_FAKE_NAV, << >>, First(m))>>
                 ELSE << >>)

\* an upper-case menu div inside a <nav>, then a matching div outside: the
\* finding references the second
C6_Witness ==
    /\ pc = "returned"
    /\ \E i, j \in 1..Len(soup) :
          /\ i < j
          /\ soup[i].name = "div" /\ soup[i].attrs.class = {<<s_Top, s_MENU>>}
          /\ \E a \in Ancestors(soup, i) : soup[a].name = "nav"
          /\ soup[j].name = "div" /\ soup[j].attrs.class = {<<s_Top, s_MENU>>}
          /\ soup[j].parent = 0
          /\ IssuesTitled(T_FAKE_NAV) = <<Issue("Medium", T_FAKE_NAV, << >>, j)>>

\* an anchor that does not navigate, as C7 states it
NonNavigatingAnchor(node) ==
    \/ node.attrs.href = {}
    \/ Get(node, "href", << >>) = s_empty
    \/ Get(node, "href", << >>) = s_hash
    \/ StartsWith(Get(node, "href", << >>), s_js_prefix)

(* C7: the anchor rule fires exactly when some <a> has an href that is      *)
(* absent, empty, "#" or starts with "javascript:"; it then emits one Low   *)
(* finding whose count is the number of such anchors and whose node is the  *)
(* first of them; otherwise it emits nothing.                               *)
C7_AnchorAsButton ==
    Returned =>
        LET m == {i \in 1..Len(soup) :
                    soup[i].name = "a" /\ NonNavigatingAnchor(soup[i])}
        IN  IssuesTitled(T_FAKE_BUTTON) =
                (IF m # {}
                 THEN <<Issue("Low", T_FAKE_BUTTON, <<Cardinality(m)>>, First(m))>>
                 ELSE << >>)

(* C8: an <img> offends exactly when its alt is absent or empty; if some    *)
(* image offends, one High finding is emitted whose count is the number of  *)
(* offending images and whose node is the first offender; if none offends   *)
(* (or there is no image) nothing is emitted.                               *)
C8_MissingAlt ==
    Returned =>
        LET m == {i \in 1..Len(soup) :
                    /\ soup[i].name = "img"
                    /\ (soup[i].attrs.alt = {} \/ soup[i].attrs.alt = {s_empty})}
        IN  IssuesTitled(T_MISSING_ALT) =
                (IF m # {}
                 THEN <<Issue("High", T_MISSING_ALT, <<Cardinality(m)>>, First(m))>>
                 ELSE << >>)

\* an image with alt text, then one with alt="": the finding references the
\* second
C8_Witness ==
    /\ pc = "returned"
    /\ \E i, j \in 1..Len(soup) :
          /\ i < j
          /\ soup[i].name = "img" /\ soup[i].attrs.alt = {s_logo}
          /\ soup[j].name = "img" /\ soup[j].attrs.alt = {s_empty}
          /\ IssuesTitled(T_MISSING_ALT) =
                <<Issue("High", T_MISSING_ALT, <<1>>, j)>>

\* new is old sorted by severity, findings of one severity in old's order
StablySorted(old, new) ==
    /\ Len(new) = Len(old)
    /\ \A i, j \in 1..Len(new) :
          i < j => SeverityRank(new[i].Severity) <= SeverityRank(new[j].Severity)
    /\ \A s \in {"Critical", "High", "Medium", "Low"} :
          SelectSeq(new, LAMBDA f : f.Severity = s)
              = SelectSeq(old, LAMBDA f : f.Severity = s)

(* C9: the findings of the report are ordered Critical, High, Medium, Low,  *)
(* and findings of equal severity keep the order in which the rules found   *)
(* them.                                                                    *)
C9_SortedBySeverityStable ==
    [][(pc = "returned" /\ pc' = "shown") => StablySorted(issues, issues')]_vars

\* a report in which the sort moved findings: two skipped levels and a fake
\* nav (Medium), found around a generic container (Critical) and before the
\* images (High)
C9_Witness ==
    /\ pc = "shown"
    /\ CountTitled(T_MISSING_H1) = 1
    /\ CountTitled(T_SKIPPED_LEVEL) >= 2
    /\ CountTitled(T_GENERIC_CONTAINER) = 1
    /\ CountTitled(T_FAKE_NAV) = 1
    /\ CountTitled(T_MISSING_ALT) = 1
    /\ CountTitled(T_FAKE_BUTTON) = 1

(* C10: among all div/section/main/article elements the rule selects the    *)
(* one with the most p descendants (at any depth), the first in document    *)
(* order among equals, and emits one Critical finding referencing it if and *)
(* only if that number exceeds 3 and the element is neither main nor        *)
(* article; with no candidate, or otherwise, it emits nothing.              *)
C10_PrimaryContent ==
    Returned =>
        LET C == {i \in 1..Len(soup) :
                    soup[i].name \in {"div", "section", "main", "article"}}
            best == {i \in C : \A j \in C : ParasBelow(i) >= ParasBelow(j)}
        IN  IssuesTitled(T_GENERIC_CONTAINER) =
                (IF /\ C # {}
                    /\ ParasBelow(First(best)) > 3
                    /\ soup[First(best)].name \notin {"main", "article"}
                 THEN <<Issue("Critical", T_GENERIC_CONTAINER,
                              <<ParasBelow(First(best))>>, First(best))>>
                 ELSE << >>)

\* a div around a <main> that holds all the paragraphs: equal counts, every
\* paragraph nested, and the finding references the div
C10_Witness ==
    /\ pc = "returned"
    /\ \E i, j \in 1..Len(soup) :
          /\ soup[i].name = "div" /\ soup[j].name = "main"
          /\ soup[j].parent = i
          /\ ParasBelow(i) = ParasBelow(j)
          /\ ParasBelow(j) = 4
          /\ IssuesTitled(T_GENERIC_CONTAINER) =
                <<Issue("Critical", T_GENERIC_CONTAINER, <<4>>, i)>>

====
